---------------------------- MODULE Spec2Model ----------------------------
(***************************************************************************)
(* Model of pandas_alive/refactor_charts.py: the frame pipeline of the     *)
(* animated line and scatter charts (_BaseChart, LineChart, ScatterChart). *)
(*                                                                         *)
(* A table (pandas DataFrame) is a record                                  *)
(*     [kind |-> "M" or "i", index |-> <<v1..vN>>, cols |-> <<col1..colC>>] *)
(* kind being the dtype kind of the index (date/time or numeric).  Cells   *)
(* are rationals [n, d] (d > 0) or NaN (d = 0); every column is numeric    *)
(* and the Data Columns are named by their position 1..C.  Timestamps are  *)
(* rationals as well: the unit is one second and the nanosecond grid of    *)
(* pandas is idealised to the continuum.                                   *)
(*                                                                         *)
(* Spec is the chart object under a driver (matplotlib FuncAnimation) that *)
(* calls init_func and then anim_func for the frames in order.  SpecInterp *)
(* applies get_interpolated_df alone to a wider set of tables.             *)
(***************************************************************************)
EXTENDS Integers, Sequences, FiniteSets, TLC

---------------------------------------------------------------------------
(* Bounds of the model *)
MaxRows == 2
MaxCols == 2
MaxSteps == 2
MaxExports == 2

---------------------------------------------------------------------------
(* Rational arithmetic (float64 values of the tables, idealised) *)

Abs(a) == IF a < 0 THEN -a ELSE a

RECURSIVE GCD(_, _)
GCD(a, b) == IF b = 0 THEN a ELSE GCD(b, a % b)

Num(k) == [n |-> k, d |-> 1]
NaN == [n |-> 0, d |-> 0]
IsNaN(v) == v.d = 0

(* n / d in lowest terms; arithmetic on a missing value gives NaN *)
Rat(n, d) ==
    IF d = 0 THEN NaN
    ELSE LET s == IF d < 0 THEN -1 ELSE 1
             g == GCD(Abs(n), Abs(d))
         IN  [n |-> (s * n) \div g, d |-> (s * d) \div g]

RAdd(a, b) == Rat(a.n * b.d + b.n * a.d, a.d * b.d)
RSub(a, b) == Rat(a.n * b.d - b.n * a.d, a.d * b.d)
RMul(a, b) == Rat(a.n * b.n, a.d * b.d)
RDiv(a, b) == Rat(a.n * b.d, a.d * b.n)
RLe(a, b) == a.n * b.d <= b.n * a.d
RLt(a, b) == a.n * b.d < b.n * a.d

SetMax(S) == CHOOSE m \in S : \A k \in S : k <= m
SetMin(S) == CHOOSE m \in S : \A k \in S : m <= k

(* min / max of a set of cells, missing values skipped (skipna=True); NaN
   when nothing is left, as pandas returns *)
RMin(S) ==
    LET V == {v \in S : ~IsNaN(v)}
    IN  IF V = {} THEN NaN ELSE CHOOSE m \in V : \A v \in V : RLe(m, v)
RMax(S) ==
    LET V == {v \in S : ~IsNaN(v)}
    IN  IF V = {} THEN NaN ELSE CHOOSE m \in V : \A v \in V : RLe(v, m)

---------------------------------------------------------------------------
(* pandas operations used by get_interpolated_df *)

(* Series.interpolate over the abscissae x (method="linear": positions;
   method="time": the index values): a missing cell between two known
   cells is interpolated, a leading one stays missing, a trailing one
   takes the last known value (limit_direction="forward") *)
interpolate_1d(x, y) ==
    [p \in 1..Len(y) |->
        IF ~IsNaN(y[p]) THEN y[p]
        ELSE LET before == {q \in 1..(p - 1) : ~IsNaN(y[q])}
                 after == {q \in (p + 1)..Len(y) : ~IsNaN(y[q])}
             IN  IF before = {} THEN NaN
                 ELSE IF after = {} THEN y[SetMax(before)]
                 ELSE LET a == SetMax(before)
                          b == SetMin(after)
                      IN  RAdd(y[a],
                               RMul(RSub(y[b], y[a]),
                                    RDiv(RSub(x[p], x[a]), RSub(x[b], x[a]))))]

Positions(L) == [p \in 1..L |-> Num(p - 1)]

(* Series.fillna(method="ffill") *)
ffill(y) ==
    [p \in 1..Len(y) |->
        IF ~IsNaN(y[p]) THEN y[p]
        ELSE LET before == {q \in 1..(p - 1) : ~IsNaN(y[q])}
             IN  IF before = {} THEN NaN ELSE y[SetMax(before)]]

(* a range that leaves its end point out *)
date_range_open(first, last, L) ==
    [p \in 1..L |-> RAdd(first, RMul(RSub(last, first), Rat(p - 1, L)))]

(* pd.date_range(first, last, periods=L): L evenly spaced timestamps *)
date_range(first, last, L) ==
    [p \in 1..L |->
        IF L = 1 THEN first
        ELSE RAdd(first, RMul(RSub(last, first), Rat(p - 1, L - 1)))]

(* a reindex onto steps_per_period * N positions, the last original row
   followed by steps_per_period - 1 rows of missing values *)
reindex_full(y, steps_per_period) ==
    [p \in 1..(Len(y) * steps_per_period) |->
        IF (p - 1) % steps_per_period = 0
        THEN y[((p - 1) \div steps_per_period) + 1]
        ELSE NaN]

(* reset_index, index * steps_per_period, reindex(range(last + 1)): the
   original row k (0-based) lands on position k * steps_per_period, every
   other position is a row of missing values *)
reindex(y, steps_per_period) ==
    [p \in 1..((Len(y) - 1) * steps_per_period + 1) |->
        IF (p - 1) % steps_per_period = 0
        THEN y[((p - 1) \div steps_per_period) + 1]
        ELSE NaN]

HasGap(y) ==
    /\ \E p \in 1..Len(y) : IsNaN(y[p])
    /\ \E p \in 1..Len(y) : ~IsNaN(y[p])

get_interpolated_df(df, steps_per_period, interpolate_period) ==
    LET idx0 == reindex(df.index, steps_per_period)
        cols0 == [c \in 1..Len(df.cols) |-> reindex(df.cols[c], steps_per_period)]
        L == Len(idx0)
        idx == IF interpolate_period
               THEN IF df.kind = "M"
                    THEN date_range(idx0[1], idx0[L], L)
                    ELSE interpolate_1d(Positions(L), idx0)
               ELSE ffill(idx0)
    IN  IF interpolate_period
        THEN IF df.kind # "M" /\ \E c \in 1..Len(cols0) : HasGap(cols0[c])
             THEN (* interpolate(method="time") without a DatetimeIndex *)
                  [err |-> "ValueError", kind |-> df.kind, index |-> <<>>, cols |-> <<>>]
             ELSE [err |-> "none", kind |-> df.kind, index |-> idx,
                   cols |-> [c \in 1..Len(cols0) |-> interpolate_1d(idx, cols0[c])]]
        ELSE [err |-> "none", kind |-> df.kind, index |-> idx,
              cols |-> [c \in 1..Len(cols0) |-> interpolate_1d(Positions(L), cols0[c])]]

---------------------------------------------------------------------------
(* The chart object and the animation driving it *)

VARIABLES
    input,               \* the caller's table, as passed to the constructor
    chart,               \* "line" (LineChart) or "scatter" (ScatterChart)
    interpolate_period,  \* attribute: bool
    steps_per_period,    \* attribute: int
    period_fmt,          \* attribute: "" (None or empty) or a pattern
    period_label,        \* attribute: bool or style dict
    size,                \* ScatterChart attribute: int or column name
    cmap,                \* attribute: here a list of colors
    df,                  \* self.df
    data_cols,           \* self.data_cols
    colors,              \* self.colors / self.line_colors
    _lines,              \* LineChart._lines
    _points,             \* ScatterChart._points
    ax_lines,            \* self.ax.lines
    ax_collections,      \* self.ax.collections (scatter markers)
    ax_texts,            \* self.ax.texts
    xlim,                \* x-view of self.ax
    ylim,                \* y-view of self.ax
    pc,                  \* "new", "failed", "idle", "init", "frames", "raised"
    frames,              \* len(get_frames()) of the running export
    frame,               \* next frame the driver renders
    exports,             \* exports started on this instance
    calls,               \* per-frame steps made by the running export
    err                  \* the exception that ended construction or export

attrs == <<input, chart, interpolate_period, steps_per_period, period_fmt,
           period_label, size, cmap>>
built == <<df, data_cols, colors>>
axes == <<ax_lines, ax_collections, ax_texts, xlim, ylim>>
vars == <<attrs, built, _lines, _points, axes, pc, frames, frame, exports,
          calls, err>>

LineWidth == 2
NoColumn == 0

(* period_label values: False, True, or a style dict (its keys) *)
LabelFalse == [dict |-> FALSE, on |-> FALSE, keys |-> {}]
LabelTrue == [dict |-> FALSE, on |-> TRUE, keys |-> {}]
LabelDict(K) == [dict |-> TRUE, on |-> K # {}, keys |-> K]

(* size values: an int, or a column name *)
SizeInt(k) == [str |-> FALSE, v |-> k]
SizeStr(name) == [str |-> TRUE, v |-> name]

get_period_label(label) ==
    IF ~label.on THEN [err |-> "none", on |-> FALSE, keys |-> {}]
    ELSE IF ~label.dict
    THEN [err |-> "none", on |-> TRUE, keys |-> {"size", "x", "y", "ha"}]
    ELSE IF "x" \notin label.keys \/ "y" \notin label.keys
    THEN [err |-> "ValueError: period_label", on |-> FALSE, keys |-> {}]
    ELSE [err |-> "none", on |-> TRUE, keys |-> label.keys]

(* cmap given as a list is used as it is *)
get_colors(c) == c

(* every column of the model's tables is numeric: named by position *)
get_data_cols(d) == [c \in 1..Len(d.cols) |-> c]

get_frames(d) == Len(d.index)

(* the view after set_x_y_limits(i), i counted from 0.  A numeric maximum
   plus pd.Timedelta(seconds=1) is a TypeError, raised before any limit is
   set *)
set_x_y_limits(d, i, xl, yl) ==
    LET xs == {d.index[p] : p \in 1..(i + 1)}
        ys == {d.cols[c][p] : c \in 1..Len(d.cols), p \in 1..(i + 1)}
    IN  IF d.kind # "M"
        THEN [err |-> "TypeError: Timedelta", xlim |-> xl, ylim |-> yl]
        ELSE [err |-> "none",
              xlim |-> <<RMin(xs), RAdd(RMax(xs), Num(1))>>,
              ylim |-> <<RMin(ys), RMax(ys)>>]

(* zip(data_cols, colors) stops at the shorter of the two *)
ZipLen(cols, cs) == IF Len(cols) <= Len(cs) THEN Len(cols) ELSE Len(cs)

(* the primitives one ax.plot(x, y, line_width, color=color) call adds: the
   line of (x, y), and, line_width being a third positional argument that
   is no format string, the line of the data set [line_width] *)
PlotCall(col, x, y, color) ==
    << [col |-> col, x |-> x, y |-> y, color |-> color],
       [col |-> NoColumn, x |-> <<Num(0)>>, y |-> <<Num(LineWidth)>>, color |-> color] >>

AppendPoint(acc, d, c, i) ==
    [x |-> Append(acc[c].x, d.index[i + 1]), y |-> Append(acc[c].y, d.cols[c][i + 1])]

RECURSIVE PlotCalls(_, _, _, _)
PlotCalls(acc, cs, n, c) ==
    IF c > n THEN <<>>
    ELSE PlotCall(c, acc[c].x, acc[c].y, cs[c]) \o PlotCalls(acc, cs, n, c + 1)

plot_line(d, i, cols, cs, acc, lines, xl, yl) ==
    LET lim == set_x_y_limits(d, i, xl, yl)
        n == ZipLen(cols, cs)
        acc2 == [c \in DOMAIN acc |-> IF c <= n THEN AppendPoint(acc, d, c, i) ELSE acc[c]]
    IN  IF lim.err # "none"
        THEN [err |-> lim.err, xlim |-> xl, ylim |-> yl, acc |-> acc, lines |-> lines]
        ELSE [err |-> "none", xlim |-> lim.xlim, ylim |-> lim.ylim, acc |-> acc2,
              lines |-> lines \o PlotCalls(acc2, cs, n, 1)]

(* `for line in self.ax.lines: line.remove()`: the list shrinks under the
   iterator, which therefore skips the element that follows each removed one *)
RECURSIVE RemoveFrom(_, _)
RemoveFrom(lines, k) ==
    IF k > Len(lines) THEN lines
    ELSE RemoveFrom(SubSeq(lines, 1, k - 1) \o SubSeq(lines, k + 1, Len(lines)), k + 1)

remove_lines(lines) == RemoveFrom(lines, 1)

Marker(c, acc, sz, color) ==
    [col |-> c, x |-> acc[c].x, y |-> acc[c].y, s |-> sz, color |-> color]

plot_point(d, i, cols, cs, sz, acc, colls, xl, yl) ==
    LET lim == set_x_y_limits(d, i, xl, yl)
        n == ZipLen(cols, cs)
        bad == sz.str /\ sz.v \notin {cols[c] : c \in 1..Len(cols)}
        s_at == IF sz.str THEN d.cols[sz.v][i + 1] ELSE Num(sz.v)
        acc1 == [c \in DOMAIN acc |-> IF c = 1 THEN AppendPoint(acc, d, c, i) ELSE acc[c]]
        acc2 == [c \in DOMAIN acc |-> IF c <= n THEN AppendPoint(acc, d, c, i) ELSE acc[c]]
    IN  IF lim.err # "none"
        THEN [err |-> lim.err, xlim |-> xl, ylim |-> yl, acc |-> acc, colls |-> colls]
        ELSE IF bad
        THEN (* raised in the first round of the loop, after its two appends *)
             [err |-> "ValueError: size", xlim |-> lim.xlim, ylim |-> lim.ylim,
              acc |-> acc1, colls |-> colls]
        ELSE [err |-> "none", xlim |-> lim.xlim, ylim |-> lim.ylim, acc |-> acc2,
              colls |-> colls \o [c \in 1..n |-> Marker(c, acc2, s_at, cs[c])]]

(* the label text of frame i *)
strftime(v, fmt) == [how |-> "strftime", fmt |-> fmt, v |-> v]
format(v, fmt) == [how |-> "format", fmt |-> fmt, v |-> v]
astype_str(v) == [how |-> "str", fmt |-> "", v |-> v]

period_text(d, i, fmt) ==
    IF fmt # ""
    THEN IF d.kind = "M" THEN strftime(d.index[i + 1], fmt) ELSE format(d.index[i + 1], fmt)
    ELSE astype_str(d.index[i + 1])

show_period(d, i, fmt, label, texts) ==
    IF ~label.on THEN [err |-> "none", texts |-> texts]
    ELSE IF Len(texts) = 0
    THEN LET kw == get_period_label(label)
         IN  IF kw.err # "none" THEN [err |-> kw.err, texts |-> texts]
             ELSE [err |-> "none",
                   texts |-> Append(texts, [s |-> period_text(d, i, fmt), kwargs |-> kw.keys])]
    ELSE [err |-> "none", texts |-> [texts EXCEPT ![1].s = period_text(d, i, fmt)]]

(* `if self.period_fmt: self.show_period(i)` at the end of both anim_func *)
period_step(d, i, fmt, label, texts) ==
    IF fmt # "" THEN show_period(d, i, fmt, label, texts)
    ELSE [err |-> "none", texts |-> texts]

---------------------------------------------------------------------------
(* Inputs *)

(* the rows of a column: rising (2, 4, ..) or falling (.., 3, 1) *)
Series(shape, N) ==
    [k \in 1..N |-> IF shape = "up" THEN Num(2 * k) ELSE Num(2 * (N - k) + 1)]

Other(shape) == IF shape = "up" THEN "down" ELSE "up"

(* tables given to the charts: N rows ten units apart, C numeric columns
   without missing values that rise and fall in turn, a date/time ("M") or
   a numeric ("i") index *)
ChartTables ==
    { [kind |-> kind,
       index |-> [k \in 1..N |-> Num(10 * k)],
       cols |-> [c \in 1..C |-> Series(IF c % 2 = 1 THEN first ELSE Other(first), N)]] :
        kind \in {"M", "i"},
        N \in 1..MaxRows,
        C \in 1..MaxCols,
        first \in {"up", "down"} }

Labels == {LabelFalse, LabelTrue, LabelDict({"x", "y", "size"}), LabelDict({"x", "size"})}

Sizes(ch) ==
    IF ch = "scatter" THEN {SizeInt(5), SizeStr(1), SizeStr(NoColumn)} ELSE {SizeInt(0)}

(* one color only, or one more than any table has columns *)
ColorLists == {[k \in 1..n |-> k] : n \in {1, MaxCols + 1}}

NoSeries == <<>>
EmptySeries(cols) == [c \in 1..Len(cols) |-> [x |-> <<>>, y |-> <<>>]]

(* a new matplotlib axes: nothing drawn, the view (0, 1) x (0, 1) *)
NewAxes ==
    /\ ax_lines = <<>>
    /\ ax_collections = <<>>
    /\ ax_texts = <<>>
    /\ xlim = <<Num(0), Num(1)>>
    /\ ylim = <<Num(0), Num(1)>>

NotBuilt ==
    /\ df = input
    /\ data_cols = <<>>
    /\ colors = <<>>
    /\ _lines = NoSeries
    /\ _points = NoSeries
    /\ pc = "new"
    /\ frames = 0
    /\ frame = 0
    /\ exports = 0
    /\ calls = 0
    /\ err = "none"

Init ==
    /\ input \in ChartTables
    /\ chart \in {"line", "scatter"}
    /\ interpolate_period \in BOOLEAN
    /\ steps_per_period \in 1..MaxSteps
    /\ period_fmt \in {"", "%Y"}
    /\ period_label \in Labels
    /\ size \in Sizes(chart)
    /\ cmap \in ColorLists
    /\ NewAxes
    /\ NotBuilt

---------------------------------------------------------------------------
(* Operations *)

(* _BaseChart.__attrs_post_init__, then that of LineChart / ScatterChart *)
attrs_post_init ==
    /\ pc = "new"
    /\ LET d == get_interpolated_df(df, steps_per_period, interpolate_period)
           cols == get_data_cols(df)
       IN  /\ colors' = get_colors(cmap)
           /\ data_cols' = cols
           /\ df' = d
           /\ IF d.err # "none"
              THEN /\ pc' = "failed"
                   /\ err' = d.err
                   /\ UNCHANGED <<_lines, _points>>
              ELSE /\ pc' = "idle"
                   /\ err' = "none"
                   /\ _lines' = IF chart = "line" THEN EmptySeries(cols) ELSE NoSeries
                   /\ _points' = IF chart = "scatter" THEN EmptySeries(cols) ELSE NoSeries
    /\ UNCHANGED <<attrs, axes, frames, frame, exports, calls>>

(* make_animation(self.get_frames(), self.init_func): the driver is set up
   to call init_func, then anim_func for each frame in order *)
make_animation ==
    /\ pc \in {"idle", "raised"}
    /\ exports < MaxExports
    /\ pc' = "init"
    /\ frames' = get_frames(df)
    /\ frame' = 0
    /\ exports' = exports + 1
    /\ calls' = 0
    /\ err' = "none"
    /\ UNCHANGED <<attrs, built, _lines, _points, axes>>

save == make_animation

get_html5_video == make_animation

LineChart_init_func ==
    /\ pc = "init"
    /\ chart = "line"
    /\ ax_lines' = ax_lines \o PlotCall(NoColumn, <<>>, <<>>, NoColumn)
    /\ pc' = "frames"
    /\ UNCHANGED <<attrs, built, _lines, _points, ax_collections, ax_texts, xlim,
                   ylim, frames, frame, exports, calls, err>>

ScatterChart_init_func ==
    /\ pc = "init"
    /\ chart = "scatter"
    /\ ax_collections' = Append(ax_collections,
                                [col |-> NoColumn, x |-> <<>>, y |-> <<>>,
                                 s |-> NaN, color |-> NoColumn])
    /\ pc' = "frames"
    /\ UNCHANGED <<attrs, built, _lines, _points, ax_lines, ax_texts, xlim, ylim,
                   frames, frame, exports, calls, err>>

(* what follows plot_line / plot_point in anim_func, given their outcome *)
AfterPlot(plot_err) ==
    LET ps == period_step(df, frame, period_fmt, period_label, ax_texts)
    IN  IF plot_err # "none"
        THEN /\ err' = plot_err
             /\ pc' = "raised"
             /\ UNCHANGED <<ax_texts, frame>>
        ELSE /\ ax_texts' = ps.texts
             /\ err' = ps.err
             /\ pc' = IF ps.err # "none" THEN "raised" ELSE "frames"
             /\ frame' = IF ps.err # "none" THEN frame ELSE frame + 1

LineChart_anim_func ==
    /\ pc = "frames"
    /\ chart = "line"
    /\ frame < frames
    /\ LET pl == plot_line(df, frame, data_cols, colors, _lines,
                           remove_lines(ax_lines), xlim, ylim)
       IN  /\ ax_lines' = pl.lines
           /\ _lines' = pl.acc
           /\ xlim' = pl.xlim
           /\ ylim' = pl.ylim
           /\ AfterPlot(pl.err)
    /\ calls' = calls + 1
    /\ UNCHANGED <<attrs, built, _points, ax_collections, frames, exports>>

ScatterChart_anim_func ==
    /\ pc = "frames"
    /\ chart = "scatter"
    /\ frame < frames
    /\ LET pp == plot_point(df, frame, data_cols, colors, size, _points,
                            ax_collections, xlim, ylim)
       IN  /\ ax_collections' = pp.colls
           /\ _points' = pp.acc
           /\ xlim' = pp.xlim
           /\ ylim' = pp.ylim
           /\ AfterPlot(pp.err)
    /\ calls' = calls + 1
    /\ UNCHANGED <<attrs, built, _lines, ax_lines, frames, exports>>

(* the driver has rendered every frame: save / get_html5_video returns *)
export_done ==
    /\ pc = "frames"
    /\ frame = frames
    /\ pc' = "idle"
    /\ UNCHANGED <<attrs, built, _lines, _points, axes, frames, frame, exports,
                   calls, err>>

Next ==
    \/ attrs_post_init
    \/ save
    \/ get_html5_video
    \/ LineChart_init_func
    \/ ScatterChart_init_func
    \/ LineChart_anim_func
    \/ ScatterChart_anim_func
    \/ export_done

Spec == Init /\ [][Next]_vars

---------------------------------------------------------------------------
(* get_interpolated_df on its own, over tables with uneven index values,
   missing cells and up to MaxTableRows rows *)

MaxTableRows == 4

Cells == {NaN, Num(1), Num(4)}

(* a second column, if any: complete, or with a leading missing cell *)
SecondColumns(N) ==
    { <<>>,
      <<Series("up", N)>>,
      <<[k \in 1..N |-> IF k = 1 THEN NaN ELSE Num(2 * k)]>> }

InterpTablesOf(N) ==
    { [kind |-> kind,
       index |-> [k \in 1..N |-> IF even THEN Num(10 * k) ELSE Num(k * k)],
       cols |-> <<col>> \o more] :
        kind \in {"M", "i"},
        even \in BOOLEAN,
        col \in [1..N -> Cells],
        more \in SecondColumns(N) }

InterpTables == UNION {InterpTablesOf(N) : N \in 1..MaxTableRows}

InitInterp ==
    /\ input \in InterpTables
    /\ chart = "line"
    /\ interpolate_period \in BOOLEAN
    /\ steps_per_period \in 1..MaxSteps
    /\ period_fmt = ""
    /\ period_label = LabelFalse
    /\ size = SizeInt(0)
    /\ cmap = <<1>>
    /\ NewAxes
    /\ NotBuilt

interpolate ==
    /\ pc = "new"
    /\ LET d == get_interpolated_df(df, steps_per_period, interpolate_period)
       IN  /\ df' = d
           /\ err' = d.err
           /\ pc' = IF d.err # "none" THEN "failed" ELSE "interpolated"
    /\ UNCHANGED <<attrs, data_cols, colors, _lines, _points, axes, frames, frame,
                   exports, calls>>

NextInterp == interpolate

SpecInterp == InitInterp /\ [][NextInterp]_vars

---------------------------------------------------------------------------
(* Properties *)

InputRows == Len(input.index)
Constructed == pc \notin {"new", "failed"}
ExportComplete == pc = "idle" /\ exports > 0

(* the running export's latest anim_func call returned: frames 0..LastFrame
   are rendered *)
Rendered == calls > 0 /\ pc \in {"frames", "idle"}
LastFrame == calls - 1

Prefix(s, n) == SubSeq(s, 1, n)
Accumulated == IF chart = "line" THEN _lines ELSE _points
DefaultView == <<Num(0), Num(1)>>

(* the primitives the latest anim_func call drew *)
DrawnNow ==
    LET n == ZipLen(data_cols, colors)
    IN  IF chart = "line"
        THEN SubSeq(ax_lines, Len(ax_lines) - 2 * n + 1, Len(ax_lines))
        ELSE SubSeq(ax_collections, Len(ax_collections) - n + 1, Len(ax_collections))

(* C1, as amended: the interpolated table of an N-row input has
   steps_per_period * (N - 1) + 1 rows, get_frames yields as many frames
   and a complete export makes that many per-frame steps *)
C1_RowCount ==
    /\ Constructed => Len(df.index) = steps_per_period * (InputRows - 1) + 1
    /\ pc \in {"init", "frames"} => frames = steps_per_period * (InputRows - 1) + 1
    /\ ExportComplete => calls = steps_per_period * (InputRows - 1) + 1

C1_Witness ==
    /\ ExportComplete
    /\ InputRows = 2
    /\ steps_per_period = 2
    /\ calls = 3

(* C1, as stated: the interpolated table has steps_per_period * N rows and
   the export makes steps_per_period * N per-frame steps *)
C1_Original ==
    /\ Constructed => Len(df.index) = steps_per_period * InputRows
    /\ ExportComplete => calls = steps_per_period * InputRows

(* C2: the interpolated table starts with the first and ends with the last
   index value of the input, for either value of interpolate_period *)
C2_FirstLastIndex ==
    pc = "interpolated" =>
        /\ df.index[1] = input.index[1]
        /\ df.index[Len(df.index)] = input.index[InputRows]

C2_Witness ==
    /\ pc = "interpolated"
    /\ interpolate_period
    /\ InputRows >= 2
    /\ steps_per_period >= 2
    /\ Len(df.index) > InputRows

(* C3: once set_x_y_limits has been called for frame i, the y-view holds
   every non-missing value of every Data Column in frames 0..i *)
C3_YViewContainsData ==
    (Constructed /\ calls > 0) =>
        \A c \in 1..Len(df.cols) : \A p \in 1..calls :
            ~IsNaN(df.cols[c][p]) =>
                RLe(ylim[1], df.cols[c][p]) /\ RLe(df.cols[c][p], ylim[2])

(* C4: with the period label enabled, once frames 0..i are rendered there
   is exactly one text object and it shows the formatted index of frame i *)
C4_OnePeriodText ==
    (period_label.on /\ Rendered) =>
        /\ Len(ax_texts) = 1
        /\ ax_texts[1].s = period_text(df, LastFrame, period_fmt)

(* C5: on a line chart, once frame i is rendered the plot holds exactly
   one line per Data Column and nothing else *)
C5_OneLinePerColumn ==
    (chart = "line" /\ Rendered) =>
        /\ Len(ax_lines) = Len(data_cols)
        /\ \A c \in 1..Len(data_cols) :
               Cardinality({k \in 1..Len(ax_lines) : ax_lines[k].col = data_cols[c]}) = 1

(* C6: when the size column is rejected, no point has been accumulated, no
   marker drawn and the view is the one of the new axes *)
C6_SizeErrorBeforeDrawing ==
    err = "ValueError: size" =>
        /\ \A c \in 1..Len(data_cols) : _points[c].x = <<>> /\ _points[c].y = <<>>
        /\ \A k \in 1..Len(ax_collections) : ax_collections[k].col = NoColumn
        /\ xlim = DefaultView
        /\ ylim = DefaultView

(* C7: with the period label enabled and no pattern, every rendered frame
   shows the plain string of its index value *)
C7_PlainStringLabel ==
    (period_label.on /\ period_fmt = "" /\ Rendered) =>
        /\ Len(ax_texts) >= 1
        /\ ax_texts[1].s = astype_str(df.index[LastFrame + 1])

(* C8: a style dict without "x" or without "y" lets no frame be rendered,
   whatever period_fmt is *)
C8_MissingAnchorFails ==
    (period_label.dict /\ ("x" \notin period_label.keys \/ "y" \notin period_label.keys))
        => ~Rendered /\ ~ExportComplete

(* C9: at frame i of any export, what is drawn for a Data Column is the
   (index, value) pairs of frames 0..i *)
C9_SameFramesEveryExport ==
    Rendered =>
        \A k \in 1..Len(DrawnNow) :
            DrawnNow[k].col # NoColumn =>
                /\ DrawnNow[k].x = Prefix(df.index, LastFrame + 1)
                /\ DrawnNow[k].y = Prefix(df.cols[DrawnNow[k].col], LastFrame + 1)

(* C10: in the first run of a new chart, after frame i every Data Column
   has accumulated the pairs of frames 0..i, whatever the number of colors *)
C10_AccumulatedPairs ==
    (exports = 1 /\ Rendered) =>
        \A c \in 1..Len(data_cols) :
            /\ Accumulated[c].x = Prefix(df.index, LastFrame + 1)
            /\ Accumulated[c].y = Prefix(df.cols[c], LastFrame + 1)

(* every data cell of the caller's table is known *)
DataNonMissing ==
    \A c \in 1..Len(input.cols) : \A k \in 1..InputRows : ~IsNaN(input.cols[c][k])

(* the value r steps after original row k on the straight line to row k + 1 *)
LinearByPosition(col, k, r) ==
    RAdd(col[k], RMul(RSub(col[k + 1], col[k]), Rat(r, steps_per_period)))

(* C11: for a table without missing data, get_interpolated_df returns a
   table (for either interpolate_period and either kind of index) whose row
   k * steps_per_period holds original row k and whose rows in between hold
   the linear interpolation by position of the two neighbouring rows *)
C11_LinearByPosition ==
    (pc # "new" /\ DataNonMissing) =>
        /\ pc = "interpolated"
        /\ \A c \in 1..Len(input.cols) :
            /\ \A k \in 1..InputRows :
                   df.cols[c][(k - 1) * steps_per_period + 1] = input.cols[c][k]
            /\ \A k \in 1..(InputRows - 1) : \A r \in 1..(steps_per_period - 1) :
                   df.cols[c][(k - 1) * steps_per_period + 1 + r]
                       = LinearByPosition(input.cols[c], k, r)

=============================================================================
